---- MODULE Spec2Model ----
(***************************************************************************)
(* Thumblify: the thumbnail generation request handler and the prompt it  *)
(* builds, the delete handler, the Generate page's polling effect and the  *)
(* download URL transformation.                                            *)
(*                                                                         *)
(* Node runs one handler at a time between two awaits, so every action of  *)
(* the server is the code of one handler from one await to the next.       *)
(***************************************************************************)
EXTENDS Naturals, Sequences, FiniteSets, Bags

(* ------------------------------ bounds -------------------------------- *)

\* generateThumbnail invocations of one run
MaxGenerate == 2
\* parts of one provider response
MaxParts == 2
\* fetchThumbnail requests of the Generate page out at a time
MaxFetch == 2
\* generateThumbnail invocations of one run of the Generate page
MaxPageGenerate == 1
\* pieces of a media URL
MaxUrl == 7

(* ------------------------------ values -------------------------------- *)

\* a JavaScript undefined (an absent field, a missing body key)
Undefined == "<undefined>"

Users == {"u1", "u2"}
\* req.session.userId of a session that never logged in
NoUser == Undefined
Sessions == Users \cup {NoUser}

\* req.body.title: missing, empty, or a text
Titles == {Undefined, "", "10 sleep tips"}

\* the _id Thumbnail.create gives the n-th record (never reused)
RecordIds == 1..MaxGenerate
\* a well-formed _id the store gives to no record
UnknownId == MaxGenerate + 1
\* no document: the id of the route /generate, useState(null), a null result
NoDoc == 0

\* the truthiness of a string-valued expression
Truthy(x) == x \notin {Undefined, ""}

\* a part of candidates[0].content.parts: text, or inline data
PartKinds == {"text", "imgA", "imgB"}
InlineData(part) == IF part = "text" THEN Undefined ELSE part

RECURSIVE SeqsUpTo(_, _)
SeqsUpTo(S, n) ==
    IF n = 0 THEN {<<>>}
    ELSE LET shorter == SeqsUpTo(S, n - 1)
         IN  shorter \cup {Append(s, x) : s \in {t \in shorter : Len(t) = n - 1}, x \in S}

\* what ai.models.generateContent can give back
ProviderResponses ==
    {[kind |-> "error", parts |-> <<>>], [kind |-> "noParts", parts |-> <<>>]}
        \cup {[kind |-> "parts", parts |-> p] : p \in SeqsUpTo(PartKinds, MaxParts)}

\* what the upload_stream callback can be called with
UploadResults == {"error", "ok"}

UnauthorizedMsg == "Unauthorized"
DeletedMsg == "Thumbnail deleted successfully"

(* ------------------------------- state -------------------------------- *)

VARIABLES
    thumbnails,   \* the Thumbnail collection: _id -> stored document
    nextId,       \* the _id the next Thumbnail.create gives
    handlers,     \* the generateThumbnail invocations, in order of arrival
    res,          \* the response being written, NoRes when none is
    \* the Generate page
    routeId,      \* useParams().id: the :id of /generate/:id, NoDoc on /generate
    formTitle,    \* the title state, the value of the title field
    thumbnail,    \* the thumbnail state: NullThumbnail, or the fetched document
    loading,      \* the loading state
    interval,     \* whether the polling effect holds a running setInterval
    posts,        \* the invocations answering a pending api.post of handleGenerate
    gets,         \* the api.get calls of fetchThumbnail that have not resolved
    imageSeen,    \* history: a response with an image_url for the thumbnail of
                  \* the route was processed since the route was entered
    \* the download button of a gallery card or of the preview panel
    mediaUrl,     \* the image_url of the thumbnail the button belongs to
    href,         \* link.href of the link last clicked, NoLink before a click
    \* the prompt of one generateThumbnail invocation
    body,         \* req.body of the request
    prompt        \* the prompt handed to ai.models.generateContent, NoPrompt before

serverVars == <<thumbnails, nextId, handlers, res>>
pageVars == <<routeId, formTitle, thumbnail, loading, interval, posts, gets, imageSeen>>
downloadVars == <<mediaUrl, href>>
promptVars == <<body, prompt>>
vars == <<thumbnails, nextId, handlers, res,
          routeId, formTitle, thumbnail, loading, interval, posts, gets, imageSeen,
          mediaUrl, href, body, prompt>>

StoredIds == DOMAIN thumbnails

\* The document generateThumbnail passes to Thumbnail.create. Of a stored
\* document the model keeps the owner and the two fields a handler writes
\* after the creation; title, prompt, style, aspect_ratio, color_scheme and
\* text_overlay are written once, here, and no handler reads them back.
\* (The first definition: created with isGenerating: false.)
NewThumbnailDone(userId, title) ==
    [userId |-> userId, isGenerating |-> FALSE, image_url |-> Undefined]
NewThumbnail(userId, title) ==
    [userId |-> userId, isGenerating |-> TRUE, image_url |-> Undefined]

\* The locals of one invocation: title until the call made with the prompt
\* built from it settles, thumbnail (the _id of the created document),
\* imageBuffer, and the calls made to the provider and to the media host.
\* userId is not read again after Thumbnail.create and is not kept.
Handler(title, pc, doc) ==
    [title |-> title, pc |-> pc, doc |-> doc,
     imageBuffer |-> Undefined, aiCalls |-> 0, uploads |-> 0]
\* an invocation that has returned: its locals are gone
Returned == Handler(Undefined, "done", NoDoc)

\* res.status(status).json(body) of a handler, with the request it answers:
\* h for generateThumbnail; the session's userId, params.id and whether
\* findOneAndDelete resolved to a document for deleteThumbnail
GenerateRes(h, status, success, message, doc) ==
    [op |-> "generate", h |-> h, userId |-> Undefined, id |-> NoDoc, deleted |-> FALSE,
     status |-> status, success |-> success, message |-> message, thumbnail |-> doc]
DeleteRes(userId, id, deleted, status, message) ==
    [op |-> "delete", h |-> 0, userId |-> userId, id |-> id, deleted |-> deleted,
     status |-> status, success |-> Undefined, message |-> message, thumbnail |-> NoDoc]
NoRes ==
    [op |-> "none", h |-> 0, userId |-> Undefined, id |-> NoDoc, deleted |-> FALSE,
     status |-> 0, success |-> Undefined, message |-> Undefined, thumbnail |-> NoDoc]

\* useState(null) of thumbnail; a fetched document is kept by its _id and
\* its image_url
NullThumbnail == [id |-> NoDoc, image_url |-> Undefined]

\* the page as mounted on /generate: the useState initial values
PageInit ==
    /\ routeId = NoDoc
    /\ formTitle = ""
    /\ thumbnail = NullThumbnail
    /\ loading = FALSE
    /\ interval = FALSE
    /\ posts = {}
    /\ gets = EmptyBag
    /\ imageSeen = FALSE

\* A URL is the sequence of its pieces: a slash, the words upload and
\* fl_attachment, or any other text without a slash ("x").
UrlPieces == {"/", "upload", "fl_attachment", "x"}
NoLink == <<>>

\* no download button is there
DownloadInit ==
    /\ mediaUrl = <<>>
    /\ href = NoLink

\* the empty collection
ServerInit ==
    /\ thumbnails = [i \in {} |-> NewThumbnail(Undefined, Undefined)]
    /\ nextId = 1
    /\ handlers = <<>>
    /\ res = NoRes

\* req.body; the specifications that do not follow the prompt keep one body
\* (with the Generate page's default style and aspect ratio)
NoPrompt == <<>>
Body(title, user_prompt, style, aspect_ratio, color_scheme) ==
    [title |-> title, prompt |-> user_prompt, style |-> style,
     aspect_ratio |-> aspect_ratio, color_scheme |-> color_scheme]
PromptInit ==
    /\ body = Body("10 sleep tips", "", "Bold and Graphic", "16:9", "vibrant")
    /\ prompt = NoPrompt

Init ==
    /\ ServerInit
    /\ PageInit
    /\ DownloadInit
    /\ PromptInit

(* --------------------------- the collection --------------------------- *)

\* Thumbnail.create(doc): a new document under a fresh _id
Create(coll, id, doc) ==
    [i \in DOMAIN coll \cup {id} |-> IF i = id THEN doc ELSE coll[i]]

\* the filter {_id: id, userId} of findOneAndDelete
Matches(coll, id, userId) == id \in DOMAIN coll /\ coll[id].userId = userId

\* Thumbnail.findOneAndDelete({_id: id, userId}): removes the one document
\* matching both fields, nothing when none matches. The first two
\* definitions are the query with the userId dropped from the filter and
\* with the _id dropped from it.
FindOneAndDeleteAnyOwner(coll, id, userId) ==
    [i \in DOMAIN coll \ {id} |-> coll[i]]
FindOneAndDeleteOfOwner(coll, id, userId) ==
    LET mine == {i \in DOMAIN coll : coll[i].userId = userId}
    IN  IF mine = {} THEN coll
        ELSE [i \in DOMAIN coll \ {CHOOSE m \in mine : \A k \in mine : m <= k} |-> coll[i]]
FindOneAndDelete(coll, id, userId) ==
    IF Matches(coll, id, userId)
    THEN [i \in DOMAIN coll \ {id} |-> coll[i]]
    ELSE coll

\* thumbnail.image_url = ...; thumbnail.isGenerating = false, as save()
\* writes them (the first definition: without the second assignment)
CompletedKeepsFlag(doc, url) == [doc EXCEPT !.image_url = url]
Completed(doc, url) == [doc EXCEPT !.image_url = url, !.isGenerating = FALSE]

\* what the catch block of generateThumbnail does to the collection:
\* nothing (the first definition: a catch block that ends the generation)
OnErrorClearsFlag(coll, id) ==
    IF id \in DOMAIN coll THEN [coll EXCEPT ![id].isGenerating = FALSE] ELSE coll
OnError(coll, id) == coll

\* the loop over parts: every part with inline data overwrites imageBuffer
RECURSIVE ImageBuffer(_, _)
ImageBuffer(parts, buffer) ==
    IF parts = <<>> THEN buffer
    ELSE ImageBuffer(Tail(parts),
                     IF Truthy(InlineData(Head(parts))) THEN InlineData(Head(parts)) ELSE buffer)

\* uploadResult.secure_url of the upload of a buffer
SecureUrl(buffer) == IF buffer = "imgA" THEN "https://media/upload/a.png"
                                        ELSE "https://media/upload/b.png"

(* ------------------------- generateThumbnail -------------------------- *)

Handlers == 1..Len(handlers)
Active(h) == handlers[h].pc # "done"

\* if (!userId) return res.status(401)..., of both handlers (the first
\* definition: the check left out)
UnauthorizedNever(userId) == FALSE
Unauthorized(userId) == ~Truthy(userId)

\* catch (error): res.status(500).json({success: false, message}); the
\* invocation returns
Fail(h, message) ==
    /\ handlers' = [handlers EXCEPT ![h] = Returned]
    /\ thumbnails' = OnError(thumbnails, handlers[h].doc)
    /\ res' = GenerateRes(h, 500, "false",
                          IF Truthy(message) THEN message ELSE "Failed to generate thumbnail",
                          NoDoc)

\* The validation Thumbnail.create runs on a document. The schema is in
\* models/Thumbnail; the handler's specification names a truthy check on
\* the title as the only validation besides the session's, in the handler
\* and not in the store: the store takes any title.
Validates(title) == TRUE

\* the session check, then Thumbnail.create (which throws into the catch
\* block when the document does not validate)
GenerateRequest(userId, title) ==
    /\ IF Unauthorized(userId)
       THEN /\ handlers' = Append(handlers, Returned)
            /\ res' = GenerateRes(Len(handlers) + 1, 401, Undefined, UnauthorizedMsg, NoDoc)
            /\ UNCHANGED <<thumbnails, nextId>>
       ELSE IF ~Validates(title)
       THEN /\ handlers' = Append(handlers, Returned)
            /\ res' = GenerateRes(Len(handlers) + 1, 500, "false", "validation failed", NoDoc)
            /\ UNCHANGED <<thumbnails, nextId>>
       ELSE /\ thumbnails' = Create(thumbnails, nextId, NewThumbnail(userId, title))
            /\ nextId' = nextId + 1
            /\ handlers' = Append(handlers, Handler(title, "created", nextId))
            /\ UNCHANGED res

\* the config and the prompt are built, ai.models.generateContent is called
GenerateContent(h) ==
    /\ handlers[h].pc = "created"
    /\ handlers' = [handlers EXCEPT ![h].pc = "ai", ![h].aiCalls = @ + 1]
    /\ UNCHANGED <<thumbnails, nextId, res>>

\* the provider call settles: the parts are read, the upload is started
ProviderReturns(h, response) ==
    /\ handlers[h].pc = "ai"
    /\ LET buffer == ImageBuffer(response.parts, Undefined)
       IN  IF response.kind = "error" THEN Fail(h, "provider error")
           ELSE IF response.kind = "noParts" THEN Fail(h, "Invalid AI response")
           ELSE IF ~Truthy(buffer) THEN Fail(h, "No image returned from AI")
           ELSE /\ handlers' = [handlers EXCEPT ![h].pc = "upload",
                                                ![h].title = Undefined,
                                                ![h].imageBuffer = buffer,
                                                ![h].uploads = @ + 1]
                /\ UNCHANGED <<thumbnails, res>>
    /\ UNCHANGED nextId

\* the upload_stream callback: reject(error), or resolve(result) and the
\* two assignments to the document, then save() is called
UploadReturns(h, result) ==
    /\ handlers[h].pc = "upload"
    /\ IF result = "error" THEN Fail(h, "upload error")
       ELSE /\ handlers' = [handlers EXCEPT ![h].pc = "save"]
            /\ UNCHANGED <<thumbnails, res>>
    /\ UNCHANGED nextId

\* save() reaches the store: the document is updated when it is still
\* stored, and the handler answers 200 with it; a deleted one makes save()
\* throw (no document found)
Save(h) ==
    /\ handlers[h].pc = "save"
    /\ LET id == handlers[h].doc
       IN  IF id \in StoredIds
           THEN /\ thumbnails' = [thumbnails EXCEPT
                       ![id] = Completed(@, SecureUrl(handlers[h].imageBuffer))]
                /\ handlers' = [handlers EXCEPT ![h] = Returned]
                /\ res' = GenerateRes(h, 200, "true", Undefined, id)
           ELSE Fail(h, "No document found")
    /\ UNCHANGED nextId

(* -------------------------- deleteThumbnail --------------------------- *)

\* ids a delete request can name: an id the store has given (its document
\* stored or deleted since), or one it gives to nobody
RequestIds == (1..(nextId - 1)) \cup {UnknownId}

DeleteThumbnail(userId, id) ==
    /\ IF Unauthorized(userId)
       THEN /\ res' = DeleteRes(userId, id, FALSE, 401, UnauthorizedMsg)
            /\ UNCHANGED thumbnails
       ELSE /\ thumbnails' = FindOneAndDelete(thumbnails, id, userId)
            /\ res' = DeleteRes(userId, id, Matches(thumbnails, id, userId),
                                200, DeletedMsg)
    /\ UNCHANGED <<nextId, handlers>>

(* ---------------------------- the server ------------------------------ *)

\* no response is being written
Idle == res = NoRes

\* the response has left and its request is over
Respond ==
    /\ ~Idle
    /\ res' = NoRes
    /\ UNCHANGED <<thumbnails, nextId, handlers>>

\* Requests of any session arrive at any time. A response leaves before the
\* next step of a handler is taken: writing it commutes with every other
\* step, and taking it first keeps each response next to the state it
\* answers for. The store answers every query.
Next ==
    \/ /\ Idle
       /\ Len(handlers) < MaxGenerate
       /\ \E userId \in Sessions, t \in Titles : GenerateRequest(userId, t)
       /\ UNCHANGED <<pageVars, downloadVars, promptVars>>
    \/ Idle /\ (\E h \in Handlers : GenerateContent(h)) /\ UNCHANGED <<pageVars, downloadVars, promptVars>>
    \/ /\ Idle
       /\ \E h \in Handlers, response \in ProviderResponses : ProviderReturns(h, response)
       /\ UNCHANGED <<pageVars, downloadVars, promptVars>>
    \/ /\ Idle
       /\ \E h \in Handlers, result \in UploadResults : UploadReturns(h, result)
       /\ UNCHANGED <<pageVars, downloadVars, promptVars>>
    \/ Idle /\ (\E h \in Handlers : Save(h)) /\ UNCHANGED <<pageVars, downloadVars, promptVars>>
    \/ /\ Idle
       /\ \E userId \in Sessions, rid \in RequestIds : DeleteThumbnail(userId, rid)
       /\ UNCHANGED <<pageVars, downloadVars, promptVars>>
    \/ Respond /\ UNCHANGED <<pageVars, downloadVars, promptVars>>

Spec == Init /\ [][Next]_vars

(* ------------------------- the Generate page -------------------------- *)

\* The page of one logged-in session (isLoggedIn is true throughout), kept
\* mounted across /generate and /generate/:id. An action is one event
\* handler or one resolved promise, with the render it causes and the
\* effects that render runs.

\* the session of the page
PageUser == "u1"

\* what the title field can hold
FormTitles == {"", "  ", "10 sleep tips"}
\* title.trim()
Trim(t) == IF t = "  " THEN "" ELSE t
\* the title of every document this page can fetch: handleGenerate lets no
\* other title through
StoredTitle == "10 sleep tips"

\* A fetchThumbnail request that is out: sent, or answered and not yet
\* resolved. Requests resolve in any order, so those out are kept as a bag.
Get(rid, phase, url) == [id |-> rid, phase |-> phase, image_url |-> url]
Sent(rid) == Get(rid, "sent", Undefined)
Out == BagToSet(gets)
Without(g) == gets (-) SetToBag({g})

\* The render after id and loading became id2 and loading2, gets2 being the
\* requests still out: the polling effect runs again when one of its
\* dependencies [id, loading, isLoggedIn] changed. Its cleanup clears the
\* interval; it calls fetchThumbnail when there is an id, and sets the
\* interval when there is an id and loading is true.
Render(id2, loading2, gets2) ==
    /\ routeId' = id2
    /\ loading' = loading2
    /\ IF id2 # routeId \/ loading2 # loading
       THEN /\ interval' = (id2 # NoDoc /\ loading2)
            /\ IF id2 # NoDoc
               THEN /\ BagCardinality(gets2) < MaxFetch
                    /\ gets' = gets2 (+) SetToBag({Sent(id2)})
               ELSE gets' = gets2
       ELSE /\ interval' = interval
            /\ gets' = gets2

\* onChange of the title input (the form takes no input while there is an id)
SetTitle(t) ==
    /\ routeId = NoDoc
    /\ t # formTitle
    /\ formTitle' = t
    /\ UNCHANGED <<routeId, thumbnail, loading, interval, posts, gets, imageSeen>>
    /\ UNCHANGED <<serverVars, downloadVars, promptVars>>

\* handleGenerate up to the await of api.post (the button is there without
\* an id, and enabled while loading is false); the request reaches
\* generateThumbnail. With an empty title it is a toast and nothing else.
HandleGenerate ==
    /\ routeId = NoDoc /\ ~loading
    /\ Truthy(Trim(formTitle))
    /\ Len(handlers) < MaxPageGenerate
    /\ GenerateRequest(PageUser, formTitle)
    /\ posts' = posts \cup {Len(handlers) + 1}
    /\ Render(routeId, TRUE, gets)
    /\ UNCHANGED <<formTitle, thumbnail, imageSeen, downloadVars, promptVars>>

\* api.post resolves or rejects: navigate to /generate/:id of the thumbnail
\* of a 200 body, setLoading(false) in the catch block otherwise
PostResolves(h) ==
    /\ h \in posts /\ res.op = "generate" /\ res.h = h
    /\ posts' = posts \ {h}
    /\ res' = NoRes
    /\ IF res.status = 200
       THEN IF res.thumbnail # NoDoc THEN Render(res.thumbnail, loading, gets)
                                     ELSE Render(routeId, loading, gets)
       ELSE Render(routeId, FALSE, gets)
    /\ imageSeen' = (routeId' = routeId /\ imageSeen)
    /\ UNCHANGED <<formTitle, thumbnail, thumbnails, nextId, handlers,
                 downloadVars, promptVars>>

\* a card of My Generations is clicked: navigate to /generate/:id, which
\* mounts the page anew (the requests of the page left behind resolve into
\* nothing). Not taken while a generate request of the page is pending.
OpenThumbnail(rid) ==
    /\ posts = {}
    /\ rid \in StoredIds /\ thumbnails[rid].userId = PageUser
    /\ routeId' = rid
    /\ formTitle' = ""
    /\ thumbnail' = NullThumbnail
    /\ loading' = FALSE
    /\ interval' = FALSE
    /\ gets' = SetToBag({Sent(rid)})
    /\ imageSeen' = FALSE
    /\ UNCHANGED posts
    /\ UNCHANGED <<serverVars, downloadVars, promptVars>>

\* "+ Create New": navigate("/generate"); the reset effect runs
CreateNew ==
    /\ routeId # NoDoc
    /\ formTitle' = ""
    /\ thumbnail' = NullThumbnail
    /\ Render(NoDoc, FALSE, gets)
    /\ imageSeen' = FALSE
    /\ UNCHANGED posts
    /\ UNCHANGED <<serverVars, downloadVars, promptVars>>

\* the interval fires: fetchThumbnail()
Tick ==
    /\ interval
    /\ BagCardinality(gets) < MaxFetch
    /\ gets' = gets (+) SetToBag({Sent(routeId)})
    /\ UNCHANGED <<routeId, formTitle, thumbnail, loading, interval, posts, imageSeen>>
    /\ UNCHANGED <<serverVars, downloadVars, promptVars>>

\* GET /api/user/thumbnail/:id is served: the stored document of the caller
ServeGet(g) ==
    /\ g \in Out /\ g.phase = "sent"
    /\ g.id \in StoredIds /\ thumbnails[g.id].userId = PageUser
    /\ gets' = Without(g) (+) SetToBag({Get(g.id, "answered", thumbnails[g.id].image_url)})
    /\ UNCHANGED <<routeId, formTitle, thumbnail, loading, interval, posts, imageSeen>>
    /\ UNCHANGED <<serverVars, downloadVars, promptVars>>

\* api.get resolves: the states are set from the document, loading to
\* whether it has no image_url (the first definition: a response without
\* image_url is dropped when the thumbnail shown has one)
GetResolvesKeepsImage(g) ==
    /\ g \in Out /\ g.phase = "answered"
    /\ IF thumbnail.id = g.id /\ Truthy(thumbnail.image_url) /\ ~Truthy(g.image_url)
       THEN /\ UNCHANGED <<thumbnail, formTitle>>
            /\ Render(routeId, loading, Without(g))
       ELSE /\ thumbnail' = [id |-> g.id, image_url |-> g.image_url]
            /\ formTitle' = StoredTitle
            /\ Render(routeId, ~Truthy(g.image_url), Without(g))
    /\ imageSeen' = (imageSeen \/ (g.id = routeId /\ Truthy(g.image_url)))
    /\ UNCHANGED posts
    /\ UNCHANGED <<serverVars, downloadVars, promptVars>>
GetResolves(g) ==
    /\ g \in Out /\ g.phase = "answered"
    /\ thumbnail' = [id |-> g.id, image_url |-> g.image_url]
    /\ formTitle' = StoredTitle
    /\ Render(routeId, ~Truthy(g.image_url), Without(g))
    /\ imageSeen' = (imageSeen \/ (g.id = routeId /\ Truthy(g.image_url)))
    /\ UNCHANGED posts
    /\ UNCHANGED <<serverVars, downloadVars, promptVars>>

\* api.get rejects: the catch block, setLoading(false)
GetRejects(g) ==
    /\ g \in Out
    /\ Render(routeId, FALSE, Without(g))
    /\ UNCHANGED <<formTitle, thumbnail, posts, imageSeen>>
    /\ UNCHANGED <<serverVars, downloadVars, promptVars>>

\* The page, and another tab of the same session that sends generate
\* requests of its own.
NextPage ==
    \/ /\ Idle
       /\ Len(handlers) < MaxPageGenerate
       /\ GenerateRequest(PageUser, StoredTitle)
       /\ UNCHANGED <<pageVars, downloadVars, promptVars>>
    \/ Idle /\ (\E h \in Handlers : GenerateContent(h)) /\ UNCHANGED <<pageVars, downloadVars, promptVars>>
    \/ /\ Idle
       /\ \E h \in Handlers, response \in ProviderResponses : ProviderReturns(h, response)
       /\ UNCHANGED <<pageVars, downloadVars, promptVars>>
    \/ /\ Idle
       /\ \E h \in Handlers, result \in UploadResults : UploadReturns(h, result)
       /\ UNCHANGED <<pageVars, downloadVars, promptVars>>
    \/ Idle /\ (\E h \in Handlers : Save(h)) /\ UNCHANGED <<pageVars, downloadVars, promptVars>>
    \/ res.h \notin posts /\ Respond /\ UNCHANGED <<pageVars, downloadVars, promptVars>>
    \/ \E h \in Handlers : PostResolves(h)
    \/ Idle /\ \E t \in FormTitles : SetTitle(t)
    \/ Idle /\ HandleGenerate
    \/ Idle /\ \E rid \in RecordIds : OpenThumbnail(rid)
    \/ Idle /\ CreateNew
    \/ Idle /\ Tick
    \/ Idle /\ \E g \in Out : ServeGet(g)
    \/ Idle /\ \E g \in Out : GetResolves(g)
    \/ Idle /\ \E g \in Out : GetRejects(g)

SpecPage == Init /\ [][NextPage]_vars

(* ------------------------- the download href -------------------------- *)

UploadSegment == <<"/", "upload", "/">>
AttachmentSegment == <<"/", "upload", "/", "fl_attachment", "/">>

\* the places of a URL where a segment starts
Occurrences(url, segment) ==
    {i \in 1..Len(url) :
        /\ i + Len(segment) - 1 <= Len(url)
        /\ SubSeq(url, i, i + Len(segment) - 1) = segment}

\* String.prototype.replace(pattern, replacement) with a string pattern:
\* the first occurrence is replaced, the string is returned as it is when
\* there is none (the first definition: every occurrence is replaced)
RECURSIVE ReplaceAll(_, _, _)
ReplaceAll(url, pattern, replacement) ==
    IF Len(url) < Len(pattern) \/ pattern = <<>> THEN url
    ELSE IF SubSeq(url, 1, Len(pattern)) = pattern
         THEN replacement
                \o ReplaceAll(SubSeq(url, Len(pattern) + 1, Len(url)), pattern, replacement)
         ELSE <<Head(url)>> \o ReplaceAll(Tail(url), pattern, replacement)
Replace(url, pattern, replacement) ==
    LET at == Occurrences(url, pattern)
    IN  IF at = {} THEN url
        ELSE LET first == CHOOSE i \in at : \A j \in at : i <= j
             IN  SubSeq(url, 1, first - 1) \o replacement
                     \o SubSeq(url, first + Len(pattern), Len(url))

\* image_url.replace("/upload/", "/upload/fl_attachment/") of both handlers
DownloadUrl(url) == Replace(url, UploadSegment, AttachmentSegment)

\* handleDownload(image_url, id) of My Generations: nothing without an
\* image_url, else a link with the download URL is appended, clicked and
\* removed
HandleDownload ==
    /\ mediaUrl # <<>>
    /\ href' = DownloadUrl(mediaUrl)
    /\ UNCHANGED <<mediaUrl, serverVars, pageVars, promptVars>>

\* onDownload of the preview panel: the same on thumbnail.image_url
OnDownload ==
    /\ mediaUrl # <<>>
    /\ href' = DownloadUrl(mediaUrl)
    /\ UNCHANGED <<mediaUrl, serverVars, pageVars, promptVars>>

\* a download button over any media URL
InitDownload ==
    /\ ServerInit
    /\ PageInit
    /\ PromptInit
    /\ mediaUrl \in SeqsUpTo(UrlPieces, MaxUrl)
    /\ href = NoLink

NextDownload == HandleDownload \/ OnDownload

SpecDownload == InitDownload /\ [][NextDownload]_vars

(* ----------------------------- the prompt ----------------------------- *)

\* stylePrompts and colorSchemeDescriptions: the keys, each with the first
\* words of its text
stylePrompts ==
    [k \in {"Bold & Graphic", "Tech/Futuristic", "Minimalist", "Photorealistic", "Illustrated"} |->
        CASE k = "Bold & Graphic" -> "eye-catching thumbnail"
          [] k = "Tech/Futuristic" -> "futuristic thumbnail"
          [] k = "Minimalist" -> "minimalist thumbnail"
          [] k = "Photorealistic" -> "photorealistic thumbnail"
          [] k = "Illustrated" -> "illustrated thumbnail"]
colorSchemeDescriptions ==
    [k \in {"vibrant", "sunset", "forest", "neon", "purple", "monochrome", "ocean", "pastel"} |->
        CASE k = "vibrant" -> "vibrant and energetic colors"
          [] k = "sunset" -> "warm sunset tones"
          [] k = "forest" -> "natural green tones"
          [] k = "neon" -> "neon glow effects"
          [] k = "purple" -> "purple-dominant color palette"
          [] k = "monochrome" -> "black and white color scheme"
          [] k = "ocean" -> "cool blue and teal tones"
          [] k = "pastel" -> "soft pastel colors"]

\* table[key] of an object literal: undefined for a key it does not have
Lookup(table, key) == IF key \in DOMAIN table THEN table[key] ELSE Undefined

\* ${x} in a template literal: undefined becomes the text "undefined"
Interpolate(x) == IF x = Undefined THEN "undefined" ELSE x

\* const { aspect_ratio = "16:9" } = req.body: the default replaces
\* undefined only (the first definition: no default)
AspectRatioAsSent(aspect_ratio) == aspect_ratio
AspectRatio(aspect_ratio) == IF aspect_ratio = Undefined THEN "16:9" ELSE aspect_ratio

\* the texts of the prompt; a string is the sequence of its pieces, the
\* literal text between two interpolations being one piece
CreateA == "Create a "
UseA == "Use a "
AdditionalDetails == "Additional details: "
ShouldBe == "The thumbnail should be "
Closing == ", visually stunning, bold, professional, and optimized for maximum click-through rate."

\* let prompt = `Create a ${stylePrompts[style]} thumbnail for "${title}". `
StyleClause(style, title) ==
    <<CreateA, Interpolate(Lookup(stylePrompts, style)), " thumbnail for \"",
      Interpolate(title), "\". ">>
\* if (color_scheme) prompt += `Use a ${...} color scheme. ` (the first
\* definition: the clause appended without the if)
ColorClauseAlways(color_scheme) ==
    <<UseA, Interpolate(Lookup(colorSchemeDescriptions, color_scheme)), " color scheme. ">>
ColorClause(color_scheme) ==
    IF Truthy(color_scheme)
    THEN <<UseA, Interpolate(Lookup(colorSchemeDescriptions, color_scheme)), " color scheme. ">>
    ELSE <<>>
\* if (user_prompt) prompt += `Additional details: ${user_prompt}. `
DetailClause(user_prompt) ==
    IF Truthy(user_prompt)
    THEN <<AdditionalDetails, Interpolate(user_prompt), ". ">>
    ELSE <<>>
\* prompt += `The thumbnail should be ${aspect_ratio}, visually ...`
ClosingClause(aspect_ratio) == <<ShouldBe, Interpolate(aspect_ratio), Closing>>

\* the prompt built from a body
Prompt(b) ==
    StyleClause(b.style, b.title) \o ColorClause(b.color_scheme)
        \o DetailClause(b.prompt) \o ClosingClause(AspectRatio(b.aspect_ratio))

\* useState<ThumbnailStyle>("Bold and Graphic") of the Generate page
DefaultStyle == "Bold and Graphic"

\* the request bodies
Styles == {Undefined, "Bold & Graphic", DefaultStyle, "Minimalist", "Retro"}
ColorSchemes == {Undefined, "", "vibrant", "pastel", "teal"}
UserPrompts == {Undefined, "", "glowing text"}
AspectRatios == {Undefined, "16:9", "1:1"}
Bodies ==
    {Body(t, p, st, a, c) :
        t \in Titles, p \in UserPrompts, st \in Styles, a \in AspectRatios, c \in ColorSchemes}

\* generateThumbnail on the body: the steps of the handler, of which
\* GenerateContent builds the prompt and hands it to the provider
PromptRequest ==
    /\ handlers = <<>>
    /\ \E userId \in Sessions : GenerateRequest(userId, body.title)
    /\ UNCHANGED <<pageVars, downloadVars, promptVars>>
PromptContent ==
    /\ \E h \in Handlers : GenerateContent(h)
    /\ prompt' = Prompt(body)
    /\ UNCHANGED <<body, pageVars, downloadVars>>

InitPrompt ==
    /\ ServerInit
    /\ PageInit
    /\ DownloadInit
    /\ body \in Bodies
    /\ prompt = NoPrompt

NextPrompt ==
    \/ Idle /\ PromptRequest
    \/ Idle /\ PromptContent
    \/ /\ Idle
       /\ \E h \in Handlers, response \in ProviderResponses : ProviderReturns(h, response)
       /\ UNCHANGED <<pageVars, downloadVars, promptVars>>
    \/ /\ Idle
       /\ \E h \in Handlers, result \in UploadResults : UploadReturns(h, result)
       /\ UNCHANGED <<pageVars, downloadVars, promptVars>>
    \/ Idle /\ (\E h \in Handlers : Save(h)) /\ UNCHANGED <<pageVars, downloadVars, promptVars>>
    \/ Respond /\ UNCHANGED <<pageVars, downloadVars, promptVars>>

SpecPrompt == InitPrompt /\ [][NextPrompt]_vars

(* ------------------------------ claims -------------------------------- *)

InProgress(doc) == doc.isGenerating /\ ~Truthy(doc.image_url)

\* a step in which deleteThumbnail serves a request
DeleteServed == res.op = "none" /\ res'.op = "delete"

\* a stored document that is in progress and that no running invocation holds
Stuck(id) ==
    /\ id \in StoredIds
    /\ thumbnails[id].isGenerating
    /\ \A h \in Handlers : Active(h) => handlers[h].doc # id

\* C1: the document of a generate request is created in an earlier step than
\* the one that calls the provider, and a document is in progress and has
\* no image_url when it is created.
C1_CreatedBeforeProviderCall ==
    [][/\ \A id \in StoredIds' \ StoredIds : InProgress(thumbnails'[id])
       /\ \A h \in 1..Len(handlers') :
            handlers'[h].aiCalls > (IF h \in Handlers THEN handlers[h].aiCalls ELSE 0)
                => /\ h \in Handlers
                   /\ handlers[h].pc = "created"
                   /\ handlers[h].doc \in 1..(nextId - 1)]_vars

\* a request with a title has called the provider; its document is stored,
\* in progress and without an image
C1_Witness ==
    \E h \in Handlers :
        /\ handlers[h].pc = "ai" /\ Truthy(handlers[h].title)
        /\ handlers[h].aiCalls = 1
        /\ handlers[h].doc \in StoredIds
        /\ InProgress(thumbnails[handlers[h].doc])

\* what C2 says of one step of one stored document, the moment image_url is
\* set being given by setAt(before, after)
C2_Step(setAt(_, _)) ==
    /\ \A id \in StoredIds' \ StoredIds : id = nextId /\ nextId' = nextId + 1
    /\ \A id \in StoredIds \cap StoredIds' :
         LET before == thumbnails[id]
             after == thumbnails'[id]
         IN  /\ Truthy(before.image_url) => after.image_url = before.image_url
             /\ (~Truthy(before.image_url) /\ Truthy(after.image_url))
                    => setAt(before, after)
             /\ ~before.isGenerating => ~after.isGenerating

C2_FlagAlreadyCleared(before, after) == ~before.isGenerating
C2_FlagClearedInTheSameStep(before, after) == before.isGenerating /\ ~after.isGenerating

\* C2 (as stated): image_url is set at most once and never changed or
\* cleared; it is set only after isGenerating has gone from true to false;
\* isGenerating never goes from false to true.
C2_ImageSetAfterFlagCleared == [][C2_Step(C2_FlagAlreadyCleared)]_vars

\* C2 (amended): image_url is set at most once and never changed or cleared;
\* it is set by the very save that moves isGenerating from true to false;
\* isGenerating never goes from false to true.
C2_ImageSetWithFlagCleared == [][C2_Step(C2_FlagClearedInTheSameStep)]_vars

\* a document completed by its handler
C2_Witness ==
    \E id \in StoredIds : ~thumbnails[id].isGenerating /\ Truthy(thumbnails[id].image_url)

\* a delete request of a logged-in caller for a stored document of another owner
ForeignDelete ==
    /\ DeleteServed
    /\ Truthy(res'.userId)
    /\ res'.id \in StoredIds
    /\ thumbnails[res'.id].userId # res'.userId

\* C3 (as stated): a delete of another owner's document leaves the
\* collection as it is and is answered not-found or forbidden, not with the
\* success message.
C3_ForeignDeleteRefused ==
    [][ForeignDelete =>
          /\ thumbnails' = thumbnails
          /\ res'.status \in {403, 404}
          /\ res'.message # DeletedMsg]_vars

\* C3 (amended): a delete of another owner's document leaves the collection
\* as it is, and is answered 200 with the success message like any delete.
C3_ForeignDeleteKeepsDocument ==
    [][ForeignDelete =>
          /\ thumbnails' = thumbnails
          /\ ~res'.deleted
          /\ res'.status = 200
          /\ res'.message = DeletedMsg]_vars

\* the answer to a delete of another owner's document, which is still stored
C3_Witness ==
    /\ res.op = "delete" /\ Truthy(res.userId)
    /\ res.id \in StoredIds
    /\ thumbnails[res.id].userId # res.userId
    /\ Cardinality(StoredIds) = 2

\* C4: every delete of a logged-in caller is answered 200 with the success
\* message; one for an id that is not stored leaves the collection as it
\* is; deleting twice leaves the collection that deleting once leaves.
C4_DeleteIdempotent ==
    /\ [](\A userId \in Users, id \in RequestIds :
            FindOneAndDelete(FindOneAndDelete(thumbnails, id, userId), id, userId)
                = FindOneAndDelete(thumbnails, id, userId))
    /\ [][(DeleteServed /\ Truthy(res'.userId)) =>
            /\ res'.status = 200
            /\ res'.message = DeletedMsg
            /\ res'.id \notin StoredIds'
                  \/ thumbnails[res'.id].userId # res'.userId
            /\ res'.id \notin StoredIds => thumbnails' = thumbnails /\ ~res'.deleted
            /\ \A id \in StoredIds \ {res'.id} :
                  id \in StoredIds' /\ thumbnails'[id] = thumbnails[id]]_vars

\* the answer to a delete of an id whose document was deleted before, while
\* another document is stored
C4_Witness ==
    /\ res.op = "delete" /\ res.status = 200 /\ ~res.deleted
    /\ Truthy(res.userId)
    /\ res.id \in 1..(nextId - 1)
    /\ res.id \notin StoredIds
    /\ StoredIds # {}

\* the response last processed is of the thumbnail of the route and has an
\* image_url
KnownImage == thumbnail.id = routeId /\ Truthy(thumbnail.image_url)

\* a step that sends a fetch request for a thumbnail
FetchIssued(rid) == CopiesIn(Sent(rid), gets') > CopiesIn(Sent(rid), gets)

\* C5: the interval sends a fetch request only while the thumbnail last
\* fetched for the route has no image_url, and the step in which a response
\* with an image_url is processed sends no fetch request for its thumbnail.
C5_PollsOnlyWhileImageAbsent ==
    [][/\ Tick => ~KnownImage
       /\ \A g \in Out :
            (Truthy(g.image_url) /\ GetResolves(g)) => ~FetchIssued(g.id)]_vars

\* the part of C5 about the interval alone
C5_IntervalOnlyWhileImageAbsent == [][Tick => ~KnownImage]_vars

\* C6 as stated: the link of a media URL that contains /upload/ contains
\* /upload/fl_attachment/ exactly once, and is the media URL with one
\* /upload/ replaced by /upload/fl_attachment/.
OneSegmentReplaced(url, out) ==
    \E i \in Occurrences(url, UploadSegment) :
        out = SubSeq(url, 1, i - 1) \o AttachmentSegment
                  \o SubSeq(url, i + Len(UploadSegment), Len(url))
C6_AttachmentExactlyOnce ==
    (href # NoLink /\ Occurrences(mediaUrl, UploadSegment) # {}) =>
        /\ Cardinality(Occurrences(href, AttachmentSegment)) = 1
        /\ OneSegmentReplaced(mediaUrl, href)

\* C6, amended: the link of a media URL that contains /upload/ is the media
\* URL with its first /upload/ replaced by /upload/fl_attachment/ and
\* nothing else changed; it contains /upload/fl_attachment/ once, and once
\* more for every /upload/fl_attachment/ the media URL has after its first
\* /upload/. The link of a media URL without /upload/ is the media URL.
FirstUpload(url) ==
    CHOOSE i \in Occurrences(url, UploadSegment) :
        \A j \in Occurrences(url, UploadSegment) : i <= j
C6_FirstUploadReplaced ==
    href # NoLink =>
        IF Occurrences(mediaUrl, UploadSegment) = {} THEN href = mediaUrl
        ELSE LET first == FirstUpload(mediaUrl)
             IN  /\ href = SubSeq(mediaUrl, 1, first - 1) \o AttachmentSegment
                             \o SubSeq(mediaUrl, first + Len(UploadSegment), Len(mediaUrl))
                 /\ Cardinality(Occurrences(href, AttachmentSegment))
                      = 1 + Cardinality({i \in Occurrences(mediaUrl, AttachmentSegment) :
                                            i > first})

\* the link of a media URL with /upload/ twice and no /upload/fl_attachment/
C6_Witness ==
    /\ href # NoLink
    /\ Cardinality(Occurrences(mediaUrl, UploadSegment)) = 2
    /\ Occurrences(mediaUrl, AttachmentSegment) = {}
    /\ Cardinality(Occurrences(href, AttachmentSegment)) = 1
    /\ Cardinality(Occurrences(href, UploadSegment)) = 2

\* C7: a generate or delete request of a session without userId is answered
\* 401, creates, changes and deletes no document, and calls neither the
\* provider nor the media host, in that step or later.
C7_UnauthorizedNoEffect ==
    [][/\ (\E title \in Titles : GenerateRequest(NoUser, title)) =>
            /\ res'.op = "generate" /\ res'.status = 401
            /\ res'.message = UnauthorizedMsg
            /\ thumbnails' = thumbnails /\ nextId' = nextId
            /\ handlers' = Append(handlers, Returned)
       /\ (\E id \in RequestIds : DeleteThumbnail(NoUser, id)) =>
            /\ res'.op = "delete" /\ res'.status = 401
            /\ res'.message = UnauthorizedMsg
            /\ thumbnails' = thumbnails /\ handlers' = handlers
       /\ \A h \in Handlers : ~Active(h) => handlers'[h] = Returned]_vars

\* a delete without userId is answered 401 for the id of a stored document,
\* after a generate without userId has been answered (invocation 1 created
\* no document: the one document there is belongs to invocation 2)
C7_Witness ==
    /\ res.op = "delete" /\ res.status = 401 /\ res.id \in StoredIds
    /\ Len(handlers) = 2 /\ handlers[1] = Returned /\ Active(2)
    /\ nextId = 2

\* C8: a generation that fails after its document was created is answered
\* 500 with {success: false, message}, has called the provider once and the
\* media host at most once, and leaves the collection as it is, its
\* document in progress and without image; no step changes a document that
\* is in progress and that no running invocation holds.
C8_FailureLeavesInProgress ==
    /\ [](\A h \in Handlers :
            /\ handlers[h].aiCalls <= 1 /\ handlers[h].uploads <= 1
            /\ (Active(h) /\ handlers[h].doc \in StoredIds)
                  => InProgress(thumbnails[handlers[h].doc]))
    /\ [][/\ \A h \in Handlers :
               (Active(h) /\ ~Active(h)' /\ res'.status # 200) =>
                   /\ res' = GenerateRes(h, 500, "false", res'.message, NoDoc)
                   /\ Truthy(res'.message)
                   /\ handlers[h].aiCalls = 1
                   /\ thumbnails' = thumbnails
          /\ \A id \in StoredIds :
               (Stuck(id) /\ id \in StoredIds') => thumbnails'[id] = thumbnails[id]]_vars

\* the only generation there was is answered 500 after its upload was
\* rejected, and its document is stored, in progress
C8_Witness ==
    /\ res.op = "generate" /\ res.status = 500 /\ res.message = "upload error"
    /\ res.h = 1 /\ nextId = 2
    /\ Stuck(1) /\ InProgress(thumbnails[1])

\* C9: when the page learns the id of the thumbnail of its generate request
\* (the response arrives and the route becomes /generate/:id), the document
\* is stored and in progress.
C9_IdLearnedWhileInProgress ==
    [][\A h \in posts :
          (PostResolves(h) /\ routeId' # routeId) =>
              /\ routeId' \in StoredIds
              /\ InProgress(thumbnails[routeId'])]_vars

\* C10: no invocation of a logged-in session whose title is missing or empty
\* holds a created document or a pending provider call.
C10_NoDocumentWithoutTitle ==
    \A h \in Handlers :
        handlers[h].pc \in {"created", "ai"} => Truthy(handlers[h].title)

\* the first part of a response that carries inline data, Undefined when
\* no part does
RECURSIVE FirstInline(_)
FirstInline(parts) ==
    IF parts = <<>> THEN Undefined
    ELSE IF Truthy(InlineData(Head(parts))) THEN InlineData(Head(parts))
    ELSE FirstInline(Tail(parts))

\* C11: when the provider call of an invocation settles with parts, the
\* buffer handed to the media host is the inline data of the first part
\* that carries some, and the invocation fails with a 500 when no part does.
C11_FirstInlinePartUploaded ==
    [][\A h \in Handlers, response \in ProviderResponses :
          (response.kind = "parts" /\ ProviderReturns(h, response)) =>
              IF Truthy(FirstInline(response.parts))
              THEN /\ handlers'[h].pc = "upload"
                   /\ handlers'[h].imageBuffer = FirstInline(response.parts)
              ELSE /\ ~Active(h)'
                   /\ res' = GenerateRes(h, 500, "false", "No image returned from AI", NoDoc)]_vars

\* the places of a piece in a string
Places(string, piece) == {i \in 1..Len(string) : string[i] = piece}

\* a prompt has been handed to the provider
PromptSent == prompt # NoPrompt

\* C12: the prompt handed to the provider starts with the style clause (the
\* text of stylePrompts[style], then the title), ends with the closing
\* clause (with the aspect ratio of the body, "16:9" when the body has
\* none), and has between them the color clause exactly when color_scheme
\* is truthy and then the detail clause exactly when the user prompt is
\* truthy; each clause is there at most once and there is nothing else.
C12_PromptIsClausesInOrder ==
    PromptSent =>
        LET color == IF Truthy(body.color_scheme) THEN 1 ELSE 0
            detail == IF Truthy(body.prompt) THEN 1 ELSE 0
            closing == 5 + 3 * color + 3 * detail
        IN  /\ Len(prompt) = closing + 3
            /\ Places(prompt, CreateA) = {1}
            /\ prompt[2] = Interpolate(Lookup(stylePrompts, body.style))
            /\ prompt[4] = Interpolate(body.title)
            /\ Places(prompt, UseA) = IF color = 1 THEN {6} ELSE {}
            /\ color = 1 =>
                 prompt[7] = Interpolate(Lookup(colorSchemeDescriptions, body.color_scheme))
            /\ Places(prompt, AdditionalDetails) = IF detail = 1 THEN {6 + 3 * color} ELSE {}
            /\ detail = 1 => prompt[7 + 3 * color] = body.prompt
            /\ Places(prompt, ShouldBe) = {closing + 1}
            /\ prompt[closing + 2] =
                 (IF body.aspect_ratio = Undefined THEN "16:9" ELSE body.aspect_ratio)
            /\ prompt[closing + 3] = Closing

\* the prompt of a body with a color scheme, a user prompt and no aspect
\* ratio has been handed to the provider: all four clauses, "16:9"
C12_Witness ==
    /\ PromptSent
    /\ \E h \in Handlers : handlers[h].aiCalls = 1
    /\ Truthy(body.color_scheme) /\ Truthy(body.prompt)
    /\ body.aspect_ratio = Undefined
    /\ Len(prompt) = 14 /\ prompt[13] = "16:9"

\* C16: the prompt of a request with the Generate page's default style has
\* a text of stylePrompts as its style; and the prompt of a request whose
\* style (or truthy color scheme) is no key of its table has "undefined"
\* there, its document created and the provider called.
TableTexts(table) == {table[k] : k \in DOMAIN table}
C16_DefaultStyleIsATableKey ==
    PromptSent =>
        /\ body.style = DefaultStyle =>
             /\ DefaultStyle \in DOMAIN stylePrompts
             /\ prompt[2] \in TableTexts(stylePrompts)
        /\ body.style \notin DOMAIN stylePrompts =>
             /\ prompt[2] = "undefined"
             /\ nextId = 2
        /\ (Truthy(body.color_scheme) /\ body.color_scheme \notin DOMAIN colorSchemeDescriptions) =>
             /\ prompt[7] = "undefined"
             /\ nextId = 2

\* the second half of C16 alone
C16_UnknownTagBecomesUndefined ==
    PromptSent =>
        /\ body.style \notin DOMAIN stylePrompts =>
             /\ prompt[2] = "undefined"
             /\ nextId = 2
        /\ (Truthy(body.color_scheme) /\ body.color_scheme \notin DOMAIN colorSchemeDescriptions) =>
             /\ prompt[7] = "undefined"
             /\ nextId = 2

\* a step in which a response with an image_url is processed
ImageArrives == \E g \in Out : Truthy(g.image_url) /\ GetResolves(g)
\* a step in which the view of the route is torn down
TornDown == routeId' # routeId \/ \E rid \in RecordIds : OpenThumbnail(rid)

\* C13: once the interval of the view of a thumbnail is set, it stays set
\* through every step that neither processes a response with an image_url
\* nor tears the view down; a rejected fetch does not clear it.
C13_PollingNeverStopsOnItsOwn ==
    [][(interval /\ ~ImageArrives /\ ~TornDown) => interval']_vars

\* C14: the thumbnail and loading state after a response resolves are those
\* of that response, whichever requests are still out and whatever was
\* shown before; a response without image_url on the route of a thumbnail
\* sets loading and the interval again.
C14_LastResponseToResolveIsShown ==
    [][\A g \in Out :
          GetResolves(g) =>
              /\ thumbnail' = [id |-> g.id, image_url |-> g.image_url]
              /\ loading' = ~Truthy(g.image_url)
              /\ (routeId # NoDoc /\ ~Truthy(g.image_url)) => interval']_vars

\* after a response with an image_url for the thumbnail of the route was
\* processed, one without has resolved: the stored document has its
\* image_url, the page shows none, is loading and polls
C14_Witness ==
    /\ routeId \in StoredIds /\ Truthy(thumbnails[routeId].image_url)
    /\ imageSeen
    /\ thumbnail = [id |-> routeId, image_url |-> Undefined]
    /\ loading /\ interval
    /\ CopiesIn(Sent(routeId), gets) > 0

\* C15: on /generate (no id), a fetch response that resolves changes
\* neither the thumbnail nor the title nor loading.
C15_ResetSurvivesLateResponse ==
    [][\A g \in Out :
          (routeId = NoDoc /\ GetResolves(g)) =>
              /\ thumbnail' = thumbnail
              /\ formTitle' = formTitle
              /\ loading' = loading]_vars

====
